---- MODULE Spec2Model ----
(***************************************************************************)
(* Two units of the repository are modelled here.                          *)
(*                                                                         *)
(*  1. public/app/plugins/datasource/influxdb/migrations.ts:               *)
(*     prepareAnnotation / migrateLegacyAnnotation, run on a JavaScript    *)
(*     heap of objects (specification Spec).                               *)
(*  2. DashboardSettings/DrilldownSettings.tsx: the AutoSaveField          *)
(*     component: its fieldState, the debounced handleChange closures, the *)
(*     onFinishChange promises in flight and the success timer             *)
(*     (specification SpecAutoSave).                                       *)
(***************************************************************************)
EXTENDS Integers, Sequences, FiniteSets

VARIABLES
    heap,        \* JS heap: sequence of objects, an object is a function key -> value
    json,        \* the value passed to prepareAnnotation (a reference to the record)
    hist,        \* hist[1] = heap before any call, hist[n+1] = heap after the n-th call
    rets,        \* rets[n] = outcome of the n-th call: [threw, value]
    fieldState,  \* AutoSaveField: React state {isLoading, showSuccess, showError}
    invalid,     \* AutoSaveField: the `invalid` prop
    curTimer,    \* pending call of the current render's lodashDebounce (or NoTimer)
    staleTimers, \* pending timers of debounced functions of earlier renders
    saves,       \* onFinishChange promises still pending
    started      \* number of onFinishChange calls made so far

autoVars == <<fieldState, invalid, curTimer, staleTimers, saves, started>>
vars     == <<heap, json, hist, rets, fieldState, invalid, curTimer, staleTimers, saves, started>>

----------------------------------------------------------------------------
(* Bounds *)

\* number of successive prepareAnnotation calls on one record
MaxCalls == 2
\* number of onFinishChange calls started in one behaviour
MaxSaves == 3
\* number of debounce timers of earlier renders that may be pending at once
MaxStale == 1

----------------------------------------------------------------------------
(* JavaScript values *)

Undefined == [t |-> "undefined"]
Null      == [t |-> "null"]
Str(s)    == [t |-> "string", s |-> s]
Num(n)    == [t |-> "number", n |-> n]
Bool(b)   == [t |-> "boolean", b |-> b]
\* arrays are carried by content; only objects have an identity (their heap index)
Arr(q)    == [t |-> "array", elems |-> q]
Ref(i)    == [t |-> "object", id |-> i]
\* the outcome of an expression that raised a TypeError
TypeError == [t |-> "TypeError"]
\* marks a key an input object does not have (used to build inputs only)
Absent    == [t |-> "absent"]

IsNullish(v) == v = Undefined \/ v = Null
IsRef(v)     == v.t = "object"

\* ToBoolean
Truthy(v) ==
    ~ \/ v = Undefined
      \/ v = Null
      \/ v = Str("")
      \/ v = Num(0)
      \/ v = Bool(FALSE)

\* a && b (b is looked at only when a is truthy; a raised error propagates)
And(a, b) == IF a = TypeError THEN a ELSE IF Truthy(a) THEN b ELSE a
\* !a
Not(a) == IF a = TypeError THEN a ELSE Bool(~Truthy(a))
\* a ?? b
Coalesce(a, b) == IF IsNullish(a) THEN b ELSE a

\* v.k : a TypeError on undefined/null, undefined on a primitive or a missing key
GetProp(h, v, k) ==
    IF IsNullish(v) THEN TypeError
    ELSE IF IsRef(v)
         THEN IF k \in DOMAIN h[v.id] THEN h[v.id][k] ELSE Undefined
         ELSE Undefined

\* v?.k
OptGetProp(h, v, k) == IF IsNullish(v) THEN Undefined ELSE GetProp(h, v, k)

\* o with o.k = val (creates the key when missing)
SetProp(o, k, val) == [x \in DOMAIN o \cup {k} |-> IF x = k THEN val ELSE o[x]]

\* the object literal with the keys of f that are not Absent
MkObj(f) == [k \in {x \in DOMAIN f : f[x] # Absent} |-> f[k]]

\* an object literal one of whose property expressions raised
Raises(o) == \E k \in DOMAIN o : o[k] = TypeError

----------------------------------------------------------------------------
(* migrations.ts *)

FlatFields   == {"query", "tagsColumn", "textColumn", "timeEndColumn", "titleColumn", "name"}
TargetFields == {"limit", "matchAny", "tags", "type"}
CurrentFields == FlatFields \cup TargetFields \cup {"queryType", "fromAnnotations"}

\* a plausible slip: `type` read from the target's queryType
migrateLegacyAnnotation_typeFromQueryType(h, j) ==
    LET target == GetProp(h, j, "target") IN
    [ query           |-> Coalesce(GetProp(h, j, "query"), Str("")),
      queryType       |-> Str("tags"),
      fromAnnotations |-> Bool(TRUE),
      tagsColumn      |-> Coalesce(GetProp(h, j, "tagsColumn"), Str("")),
      textColumn      |-> Coalesce(GetProp(h, j, "textColumn"), Str("")),
      timeEndColumn   |-> Coalesce(GetProp(h, j, "timeEndColumn"), Str("")),
      titleColumn     |-> Coalesce(GetProp(h, j, "titleColumn"), Str("")),
      name            |-> Coalesce(GetProp(h, j, "name"), Str("")),
      limit           |-> IF Truthy(target) THEN GetProp(h, target, "limit") ELSE Num(0),
      matchAny        |-> IF Truthy(target) THEN GetProp(h, target, "matchAny") ELSE Bool(FALSE),
      tags            |-> IF Truthy(target) THEN GetProp(h, target, "tags") ELSE Arr(<<>>),
      type            |-> IF Truthy(target) THEN GetProp(h, target, "queryType") ELSE Str("") ]

\* a plausible slip: the flat fields read from the existing target
migrateLegacyAnnotation_flatFromTarget(h, j) ==
    LET target == GetProp(h, j, "target") IN
    [ query           |-> Coalesce(GetProp(h, j, "query"), Str("")),
      queryType       |-> Str("tags"),
      fromAnnotations |-> Bool(TRUE),
      tagsColumn      |-> Coalesce(OptGetProp(h, target, "tagsColumn"), Str("")),
      textColumn      |-> Coalesce(OptGetProp(h, target, "textColumn"), Str("")),
      timeEndColumn   |-> Coalesce(OptGetProp(h, target, "timeEndColumn"), Str("")),
      titleColumn     |-> Coalesce(OptGetProp(h, target, "titleColumn"), Str("")),
      name            |-> Coalesce(OptGetProp(h, target, "name"), Str("")),
      limit           |-> IF Truthy(target) THEN GetProp(h, target, "limit") ELSE Num(0),
      matchAny        |-> IF Truthy(target) THEN GetProp(h, target, "matchAny") ELSE Bool(FALSE),
      tags            |-> IF Truthy(target) THEN GetProp(h, target, "tags") ELSE Arr(<<>>),
      type            |-> IF Truthy(target) THEN GetProp(h, target, "type") ELSE Str("") ]

\* a plausible slip: the target sub-fields always defaulted
migrateLegacyAnnotation_defaultsOnly(h, j) ==
    [ query           |-> Coalesce(GetProp(h, j, "query"), Str("")),
      queryType       |-> Str("tags"),
      fromAnnotations |-> Bool(TRUE),
      tagsColumn      |-> Coalesce(GetProp(h, j, "tagsColumn"), Str("")),
      textColumn      |-> Coalesce(GetProp(h, j, "textColumn"), Str("")),
      timeEndColumn   |-> Coalesce(GetProp(h, j, "timeEndColumn"), Str("")),
      titleColumn     |-> Coalesce(GetProp(h, j, "titleColumn"), Str("")),
      name            |-> Coalesce(GetProp(h, j, "name"), Str("")),
      limit           |-> Num(0),
      matchAny        |-> Bool(FALSE),
      tags            |-> Arr(<<>>),
      type            |-> Str("") ]

\* the object literal migrateLegacyAnnotation(json) builds
migrateLegacyAnnotation(h, j) ==
    LET target == GetProp(h, j, "target") IN
    [ query           |-> Coalesce(GetProp(h, j, "query"), Str("")),
      queryType       |-> Str("tags"),
      fromAnnotations |-> Bool(TRUE),
      tagsColumn      |-> Coalesce(GetProp(h, j, "tagsColumn"), Str("")),
      textColumn      |-> Coalesce(GetProp(h, j, "textColumn"), Str("")),
      timeEndColumn   |-> Coalesce(GetProp(h, j, "timeEndColumn"), Str("")),
      titleColumn     |-> Coalesce(GetProp(h, j, "titleColumn"), Str("")),
      name            |-> Coalesce(GetProp(h, j, "name"), Str("")),
      limit           |-> IF Truthy(target) THEN GetProp(h, target, "limit") ELSE Num(0),
      matchAny        |-> IF Truthy(target) THEN GetProp(h, target, "matchAny") ELSE Bool(FALSE),
      tags            |-> IF Truthy(target) THEN GetProp(h, target, "tags") ELSE Arr(<<>>),
      type            |-> IF Truthy(target) THEN GetProp(h, target, "type") ELSE Str("") ]

\* a plausible slip: no guard on json.target and no optional chaining
migrationCondition_noGuard(h, j) ==
    Not(GetProp(h, GetProp(h, j, "target"), "query"))

\* a plausible slip: the negation left out
migrationCondition_noNegation(h, j) ==
    LET target == GetProp(h, j, "target") IN
    And(target, OptGetProp(h, target, "query"))

\* a plausible slip: only a missing query counts, not an empty one
migrationCondition_undefinedOnly(h, j) ==
    LET target == GetProp(h, j, "target") IN
    And(target, Bool(OptGetProp(h, target, "query") = Undefined))

\* the condition of the conditional expression:  json.target && !json.target?.query
migrationCondition(h, j) ==
    LET target == GetProp(h, j, "target") IN
    And(target, Not(OptGetProp(h, target, "query")))

\* a plausible slip: a copy of the record is returned instead of the record
prepareAnnotation_returnsCopy(h, j) ==
    LET cond    == migrationCondition(h, j)
        migrate == cond # TypeError /\ Truthy(cond)
        obj     == migrateLegacyAnnotation(h, j)
        threw   == cond = TypeError \/ (migrate /\ Raises(obj))
        h1      == IF migrate THEN Append(h, obj) ELSE h
        value   == IF migrate THEN Ref(Len(h1)) ELSE GetProp(h, j, "target")
    IN  IF threw
        THEN [threw |-> TRUE, heap |-> h, value |-> Undefined]
        ELSE [threw |-> FALSE,
              heap  |-> Append(h1, SetProp(h[j.id], "target", value)),
              value |-> Ref(Len(h1) + 1)]

\* prepareAnnotation(json): the heap after the call and what the call returns
prepareAnnotation(h, j) ==
    LET cond    == migrationCondition(h, j)
        migrate == cond # TypeError /\ Truthy(cond)
        obj     == migrateLegacyAnnotation(h, j)
        threw   == cond = TypeError \/ (migrate /\ Raises(obj))
        h1      == IF migrate THEN Append(h, obj) ELSE h
        value   == IF migrate THEN Ref(Len(h1)) ELSE GetProp(h, j, "target")
    IN  IF threw
        THEN [threw |-> TRUE, heap |-> h, value |-> Undefined]
        ELSE [threw |-> FALSE,
              heap  |-> [h1 EXCEPT ![j.id] = SetProp(@, "target", value)],
              value |-> j]

----------------------------------------------------------------------------
(* The records prepareAnnotation is applied to *)

TopLevelRecords ==
    { MkObj([ query           |-> q,
              tagsColumn      |-> tc,
              textColumn      |-> xc,
              timeEndColumn   |-> IF cols THEN Str("e") ELSE Absent,
              titleColumn     |-> IF cols THEN Str("ti") ELSE Absent,
              name            |-> nm,
              queryType       |-> IF legacy THEN Str("sql") ELSE Absent,
              fromAnnotations |-> IF legacy THEN Bool(FALSE) ELSE Absent,
              enable          |-> en ]) :
        q \in {Absent, Null, Str(""), Str("foo")},
        tc \in {Absent, Str("t")},
        xc \in {Absent, Str("x")},
        nm \in {Absent, Str("n1")},
        en \in {Absent, Bool(TRUE)},
        cols \in BOOLEAN,
        legacy \in BOOLEAN }

TargetObjects ==
    { MkObj([ query           |-> q,
              limit           |-> lim,
              matchAny        |-> ma,
              tags            |-> tg,
              type            |-> ty,
              tagsColumn      |-> IF cur THEN Str("tc") ELSE Absent,
              textColumn      |-> IF cur THEN Str("x") ELSE Absent,
              timeEndColumn   |-> IF cur THEN Str("") ELSE Absent,
              titleColumn     |-> IF cur THEN Str("tt") ELSE Absent,
              name            |-> IF cur THEN Str("tn") ELSE Absent,
              queryType       |-> IF cur THEN Str("tags") ELSE Absent,
              fromAnnotations |-> IF cur THEN Bool(TRUE) ELSE Absent ]) :
        q \in {Absent, Str(""), Str("host=$host")},
        lim \in {Absent, Num(5)},
        ma \in {Absent, Bool(TRUE)},
        tg \in {Absent, Arr(<<"a", "b">>)},
        ty \in {Absent, Str("tags")},
        cur \in BOOLEAN }

\* a target that is no object: missing, undefined, null or a primitive
TargetPrimitives ==
    {Absent, Undefined, Null, Num(0), Num(5), Str(""), Str("abc"), Bool(FALSE), Bool(TRUE)}

----------------------------------------------------------------------------
(* AutoSaveField: initial values *)

NoTimer == [armed |-> FALSE]

AutoInit ==
    /\ invalid \in BOOLEAN
    /\ fieldState = [isLoading |-> FALSE, showSuccess |-> FALSE, showError |-> invalid]
    /\ curTimer = NoTimer
    /\ staleTimers = <<>>
    /\ saves = <<>>
    /\ started = 0

AutoIdle ==
    /\ invalid = FALSE
    /\ fieldState = [isLoading |-> FALSE, showSuccess |-> FALSE, showError |-> FALSE]
    /\ curTimer = NoTimer
    /\ staleTimers = <<>>
    /\ saves = <<>>
    /\ started = 0

----------------------------------------------------------------------------
(* Specification Spec: prepareAnnotation applied repeatedly to one record *)

MigIdle ==
    /\ heap = << MkObj([enable |-> Bool(TRUE)]) >>
    /\ json = Ref(1)
    /\ hist = << heap >>
    /\ rets = <<>>

Init ==
    /\ \E top \in TopLevelRecords :
          \/ \E p \in TargetPrimitives :
                heap = << MkObj([k \in DOMAIN top \cup {"target"} |->
                                    IF k = "target" THEN p ELSE top[k]]) >>
          \/ \E o \in TargetObjects :
                heap = << SetProp(top, "target", Ref(2)), o >>
    /\ json = Ref(1)
    /\ hist = << heap >>
    /\ rets = <<>>
    /\ AutoIdle

\* json = prepareAnnotation(json)
Call ==
    /\ Len(rets) < MaxCalls
    /\ rets # <<>> => ~rets[Len(rets)].threw
    /\ LET r == prepareAnnotation(heap, json) IN
          /\ heap' = r.heap
          /\ json' = IF r.threw THEN json ELSE r.value
          /\ hist' = Append(hist, r.heap)
          /\ rets' = Append(rets, [threw |-> r.threw, value |-> r.value])
    /\ UNCHANGED autoVars

Next == Call

Spec == Init /\ [][Next]_vars
----------------------------------------------------------------------------
(* What the claims about prepareAnnotation speak of *)

\* the calls made so far
Calls == 1..Len(rets)
\* the record the n-th call was given
Arg(n) == IF n = 1 THEN Ref(1) ELSE rets[n - 1].value
\* the heap before and after the n-th call
Before(n) == hist[n]
After(n)  == hist[n + 1]
\* the record's target before the n-th call, and the returned record's target
TargetBefore(n) == GetProp(Before(n), Arg(n), "target")
TargetAfter(n)  == GetProp(After(n), rets[n].value, "target")
\* a value with a reference replaced by the object it refers to
Contents(h, v) == IF IsRef(v) THEN [object |-> h[v.id]] ELSE [primitive |-> v]
\* the n-th call built a new target object
Migrated(n) == Len(After(n)) > Len(Before(n))
\* the current-shape record claimed for record j of heap h, its four target
\* sub-fields being sub
ExpectedTarget(h, j, sub) ==
    [k \in CurrentFields |->
        IF k \in FlatFields THEN Coalesce(GetProp(h, j, k), Str(""))
        ELSE IF k = "queryType" THEN Str("tags")
        ELSE IF k = "fromAnnotations" THEN Bool(TRUE)
        ELSE sub[k]]
DefaultSubFields ==
    [limit |-> Num(0), matchAny |-> Bool(FALSE), tags |-> Arr(<<>>), type |-> Str("")]
\* o has every current-shape field, each of its declared type
CurrentShape(o) ==
    /\ CurrentFields \subseteq DOMAIN o
    /\ \A k \in FlatFields \cup {"queryType", "type"} : o[k].t = "string"
    /\ o["limit"].t = "number"
    /\ o["matchAny"].t = "boolean"
    /\ o["fromAnnotations"].t = "boolean"
    /\ o["tags"].t = "array"
\* the top-level fields of record v other than target
OtherFields(h, v) == [k \in DOMAIN h[v.id] \ {"target"} |-> h[v.id][k]]

(* C1: a record whose target is undefined or null ends with a fully defaulted
   current-shape target: flat fields from the record or "", limit 0, matchAny
   false, tags [], type "", queryType "tags", fromAnnotations true *)
C1_AbsentTargetMigrated ==
    \A n \in Calls :
        IsNullish(TargetBefore(n)) =>
            /\ IsRef(TargetAfter(n))
            /\ After(n)[TargetAfter(n).id]
                   = ExpectedTarget(Before(n), Arg(n), DefaultSubFields)

(* C2: after every call the record's target is present and each of the twelve
   current-shape fields holds a defined value *)
C2_TargetAlwaysPopulated ==
    \A n \in Calls :
        /\ IsRef(TargetAfter(n))
        /\ \A k \in CurrentFields :
              /\ k \in DOMAIN After(n)[TargetAfter(n).id]
              /\ ~IsNullish(After(n)[TargetAfter(n).id][k])

(* C3: when target is present and target.query is truthy, the returned record's
   target is the very same object and none of its fields changed *)
C3_TruthyQueryUntouched ==
    \A n \in Calls :
        (~IsNullish(TargetBefore(n)) /\ Truthy(GetProp(Before(n), TargetBefore(n), "query"))) =>
            /\ ~rets[n].threw
            /\ TargetAfter(n) = TargetBefore(n)
            /\ Contents(After(n), TargetAfter(n)) = Contents(Before(n), TargetBefore(n))

C3_Witness ==
    /\ Len(rets) >= 1
    /\ IsRef(TargetBefore(1))
    /\ GetProp(Before(1), TargetBefore(1), "query") = Str("host=$host")
    /\ "limit" \notin DOMAIN Before(1)[TargetBefore(1).id]
    /\ GetProp(Before(1), Arg(1), "query") = Str("foo")
    /\ TargetAfter(1) = TargetBefore(1)

(* C4 as stated: when target is present (not undefined/null) and target.query is
   falsy, target is replaced by a new record: limit, matchAny, tags, type copied
   from the old target, flat fields from the top-level record ("" when absent),
   queryType "tags", fromAnnotations true *)
C4_PresentTargetMigrated ==
    \A n \in Calls :
        (~IsNullish(TargetBefore(n)) /\ ~Truthy(GetProp(Before(n), TargetBefore(n), "query"))) =>
            /\ IsRef(TargetAfter(n))
            /\ TargetAfter(n).id > Len(Before(n))
            /\ After(n)[TargetAfter(n).id]
                   = ExpectedTarget(Before(n), Arg(n),
                        [k \in TargetFields |-> GetProp(Before(n), TargetBefore(n), k)])

(* C4 as amended: the same, for a target that is truthy (an object or a truthy
   primitive) and whose query is falsy *)
C4_TruthyTargetMigrated ==
    \A n \in Calls :
        (Truthy(TargetBefore(n)) /\ ~Truthy(GetProp(Before(n), TargetBefore(n), "query"))) =>
            /\ IsRef(TargetAfter(n))
            /\ TargetAfter(n).id > Len(Before(n))
            /\ After(n)[TargetAfter(n).id]
                   = ExpectedTarget(Before(n), Arg(n),
                        [k \in TargetFields |-> GetProp(Before(n), TargetBefore(n), k)])

C4_Witness ==
    /\ Len(rets) >= 1
    /\ IsRef(TargetBefore(1))
    /\ "query" \notin DOMAIN Before(1)[TargetBefore(1).id]
    /\ GetProp(Before(1), TargetBefore(1), "limit") = Num(5)
    /\ GetProp(Before(1), TargetBefore(1), "tagsColumn") = Str("tc")
    /\ "tagsColumn" \notin DOMAIN Before(1)[1]
    /\ GetProp(Before(1), Arg(1), "queryType") = Str("sql")
    /\ GetProp(Before(1), Arg(1), "name") = Str("n1")
    /\ IsRef(TargetAfter(1))
    /\ TargetAfter(1) # TargetBefore(1)
    /\ GetProp(After(1), TargetAfter(1), "limit") = Num(5)
    /\ GetProp(After(1), TargetAfter(1), "tagsColumn") = Str("")
    /\ GetProp(After(1), TargetAfter(1), "name") = Str("n1")

(* C5: every call returns the record it was given, and every top-level field
   other than target has the same presence and value after the call as before *)
C5_OnlyTargetChanges ==
    \A n \in Calls :
        /\ ~rets[n].threw
        /\ rets[n].value = Arg(n)
        /\ OtherFields(After(n), Arg(n)) = OtherFields(Before(n), Arg(n))

C5_Witness ==
    /\ Len(rets) = 2
    /\ Migrated(1)
    /\ ~Migrated(2)
    /\ {"query", "queryType", "fromAnnotations", "tagsColumn", "enable"} \subseteq DOMAIN After(2)[1]
    /\ rets[2].value = Ref(1)

(* C6: no call raises an error, whatever the target is (missing, null, a
   primitive, an empty object, an object without sub-fields), and every call
   returns a record *)
C6_NeverThrows ==
    \A n \in Calls : ~rets[n].threw /\ IsRef(rets[n].value)

C6_Witness ==
    /\ Len(rets) = MaxCalls
    /\ "target" \in DOMAIN Before(1)[1]
    /\ Before(1)[1]["target"] = Str("abc")
    /\ Migrated(1)
    /\ ~rets[MaxCalls].threw

(* C7: a second application leaves the record with the same target field values
   and the same top-level fields as the first application did *)
C7_IdempotentByValue ==
    \A n \in Calls \ {1} :
        /\ ~rets[n].threw
        /\ Contents(After(n), TargetAfter(n)) = Contents(After(n - 1), TargetAfter(n - 1))
        /\ OtherFields(After(n), rets[n].value) = OtherFields(After(n - 1), rets[n - 1].value)

C7_Witness ==
    /\ Len(rets) >= 2
    /\ Migrated(1)
    /\ Migrated(2)
    /\ TargetAfter(2) # TargetAfter(1)
    /\ GetProp(After(2), TargetAfter(2), "limit") = Num(5)
    /\ GetProp(After(2), TargetAfter(2), "tagsColumn") = Str("t")

(* C8: after a call that migrated, the next call migrates again (builds a new
   target object) when the top-level query is absent or empty, and returns the
   target as given when the top-level query is non-empty *)
C8_EmptyQueryRemigrates ==
    \A n \in Calls \ {1} :
        Migrated(n - 1) =>
            LET q == GetProp(Before(n - 1), Arg(n - 1), "query") IN
            /\ (IsNullish(q) \/ q = Str("")) =>
                   /\ GetProp(Before(n), TargetBefore(n), "query") = Str("")
                   /\ Migrated(n)
                   /\ IsRef(TargetAfter(n))
                   /\ TargetAfter(n) # TargetBefore(n)
            /\ (q.t = "string" /\ q # Str("")) =>
                   /\ ~Migrated(n)
                   /\ TargetAfter(n) = TargetBefore(n)
                   /\ After(n) = Before(n)

C8_Witness ==
    /\ Len(rets) >= 2
    /\ Migrated(1)
    /\ "query" \notin DOMAIN Before(1)[1]
    /\ Migrated(2)
    /\ TargetAfter(2) # TargetAfter(1)

(* C9 as stated: when target is already in the current shape with an empty
   query string, the call leaves every field value of target unchanged *)
C9_RemigrationKeepsTarget ==
    \A n \in Calls :
        (/\ IsRef(TargetBefore(n))
         /\ CurrentShape(Before(n)[TargetBefore(n).id])
         /\ Before(n)[TargetBefore(n).id]["query"] = Str("")) =>
            Contents(After(n), TargetAfter(n)) = Contents(Before(n), TargetBefore(n))

(* C9 as amended: such a call keeps limit, matchAny, tags and type; the flat
   fields become the top-level record's values ("" when absent there), queryType
   "tags" and fromAnnotations true, so target keeps all its field values exactly
   when its flat fields, queryType and fromAnnotations already had those values *)
C9_RemigrationKeepsSubFields ==
    \A n \in Calls :
        (/\ IsRef(TargetBefore(n))
         /\ CurrentShape(Before(n)[TargetBefore(n).id])
         /\ Before(n)[TargetBefore(n).id]["query"] = Str("")) =>
            LET old == Before(n)[TargetBefore(n).id]
                new == After(n)[TargetAfter(n).id]
                top == ExpectedTarget(Before(n), Arg(n), DefaultSubFields)
            IN  /\ IsRef(TargetAfter(n))
                /\ DOMAIN new = CurrentFields
                /\ \A k \in TargetFields : new[k] = old[k]
                /\ \A k \in CurrentFields \ TargetFields : new[k] = top[k]
                /\ (\A k \in CurrentFields : new[k] = old[k])
                       <=> (\A k \in CurrentFields \ TargetFields : old[k] = top[k])

C9_Witness ==
    /\ Len(rets) >= 1
    /\ IsRef(TargetBefore(1))
    /\ CurrentShape(Before(1)[TargetBefore(1).id])
    /\ Before(1)[TargetBefore(1).id]["query"] = Str("")
    /\ Before(1)[TargetBefore(1).id]["tagsColumn"] = Str("tc")
    /\ Before(1)[TargetBefore(1).id]["limit"] = Num(5)
    /\ "tagsColumn" \notin DOMAIN Before(1)[1]
    /\ IsRef(TargetAfter(1))
    /\ After(1)[TargetAfter(1).id]["tagsColumn"] = Str("")
    /\ After(1)[TargetAfter(1).id]["limit"] = Num(5)

----------------------------------------------------------------------------
(* Specification SpecAutoSave: the AutoSaveField component *)

\* the values the wrapped input hands to onChange
InputValues == {"a", "b"}

\* s without its i-th element
RemoveAt(s, i) == [k \in 1..(Len(s) - 1) |-> IF k < i THEN s[k] ELSE s[k + 1]]

\* A render happens whenever fieldState is set or the invalid prop changes:
\* useCallback then yields a new handleChange and useMemo a new debounced function
\* (deps [invalid, fieldState, onFinishChange] and [handleChange]).  The debounced
\* function of the render before is not cancelled: a timer it holds stays pending.
Rerender(cur, stale) ==
    /\ curTimer' = NoTimer
    /\ staleTimers' = IF cur.armed THEN Append(stale, cur) ELSE stale

\* the input's onChange: lodashDebounce(newValue) of the current render (re)arms
\* its 600 ms timer with the latest argument
OnChange(v) ==
    /\ curTimer.armed \/ Len(staleTimers) < MaxStale
    /\ curTimer' = [armed |-> TRUE, fs |-> fieldState, inv |-> invalid, arg |-> v]
    /\ UNCHANGED <<fieldState, invalid, staleTimers, saves, started, heap, json, hist, rets>>

\* handleChange(nextValue) as closed over the render (fs, inv) that created it
HandleChange(t, cur, stale) ==
    IF t.inv
    THEN /\ curTimer' = cur
         /\ staleTimers' = stale
         /\ UNCHANGED <<fieldState, saves, started>>
    ELSE /\ started < MaxSaves
         /\ fieldState' = [t.fs EXCEPT !.isLoading = TRUE, !.showSuccess = FALSE]
         /\ saves' = Append(saves, [fs |-> t.fs, arg |-> t.arg])
         /\ started' = started + 1
         /\ Rerender(cur, stale)

\* the debounce timer of the current render's debounced function fires
FireCurrent ==
    /\ curTimer.armed
    /\ HandleChange(curTimer, NoTimer, staleTimers)
    /\ UNCHANGED <<invalid, heap, json, hist, rets>>

\* the debounce timer of an earlier render's debounced function fires
FireStale(i) ==
    /\ i \in 1..Len(staleTimers)
    /\ HandleChange(staleTimers[i], curTimer, RemoveAt(staleTimers, i))
    /\ UNCHANGED <<invalid, heap, json, hist, rets>>

\* onFinishChange's promise fulfils: the .then handler
SaveResolved(i) ==
    /\ i \in 1..Len(saves)
    /\ fieldState' = [isLoading |-> FALSE, showSuccess |-> TRUE, showError |-> FALSE]
    /\ saves' = RemoveAt(saves, i)
    /\ Rerender(curTimer, staleTimers)
    /\ UNCHANGED <<invalid, started, heap, json, hist, rets>>

\* onFinishChange's promise rejects: the .catch handler
SaveRejected(i) ==
    /\ i \in 1..Len(saves)
    /\ fieldState' = [saves[i].fs EXCEPT !.isLoading = FALSE, !.showError = TRUE]
    /\ saves' = RemoveAt(saves, i)
    /\ Rerender(curTimer, staleTimers)
    /\ UNCHANGED <<invalid, started, heap, json, hist, rets>>

\* the effect's timeout: armed by every render with showSuccess, cleared by the next
SuccessTimeout ==
    /\ fieldState.showSuccess
    /\ fieldState' = [fieldState EXCEPT !.showSuccess = FALSE]
    /\ Rerender(curTimer, staleTimers)
    /\ UNCHANGED <<invalid, saves, started, heap, json, hist, rets>>

\* the parent renders the field with another `invalid` prop
InvalidChanged ==
    /\ ~curTimer.armed \/ Len(staleTimers) < MaxStale
    /\ invalid' = ~invalid
    /\ Rerender(curTimer, staleTimers)
    /\ UNCHANGED <<fieldState, saves, started, heap, json, hist, rets>>

AutoNext ==
    \/ \E v \in InputValues : OnChange(v)
    \/ FireCurrent
    \/ \E i \in 1..MaxStale : FireStale(i)
    \/ \E i \in 1..MaxSaves : SaveResolved(i)
    \/ \E i \in 1..MaxSaves : SaveRejected(i)
    \/ SuccessTimeout
    \/ InvalidChanged

InitAutoSave == MigIdle /\ AutoInit

SpecAutoSave == InitAutoSave /\ [][AutoNext]_vars

----------------------------------------------------------------------------
(* C10: whenever an onFinishChange promise is still pending, isLoading is true *)
C10_LoadingWhileSaving == saves # <<>> => fieldState.isLoading

====
